---------------------------- MODULE Spec2Model ----------------------------
(***************************************************************************)
(* A model of the thread-per-connection HTTP server of src/main.rs.         *)
(*                                                                         *)
(* Bytes are integers (their ASCII codes), strings and byte vectors are    *)
(* sequences of bytes.  The byte 255 stands for any byte that can not      *)
(* occur in valid UTF-8.  A client is the byte stream it sends together    *)
(* with what the socket reports once these bytes are used up.              *)
(***************************************************************************)
EXTENDS Integers, Sequences, FiniteSets, TLC

(***************************************************************************)
(* String constants of the source.                                         *)
(***************************************************************************)
\* "." (main.rs:13)
DEFAULT_DIRECTORY == <<46>>
\* "HTTP/1.1 200 OK\r\n\r\n" (main.rs:15)
OK_HEADER ==
    <<72, 84, 84, 80, 47, 49, 46, 49, 32, 50, 48, 48, 32, 79, 75, 13, 10, 13, 10>>
\* "HTTP/1.1 201 Created\r\n\r\n" (main.rs:16)
CREATED_HEADER ==
    <<72, 84, 84, 80, 47, 49, 46, 49, 32, 50, 48, 49, 32, 67, 114, 101, 97, 116,
      101, 100, 13, 10, 13, 10>>
\* "HTTP/1.1 404 Not Found\r\n\r\n" (main.rs:17)
NOT_FOUND_HEADER ==
    <<72, 84, 84, 80, 47, 49, 46, 49, 32, 52, 48, 52, 32, 78, 111, 116, 32, 70,
      111, 117, 110, 100, 13, 10, 13, 10>>
\* "HTTP/1.1 405 Method Not Allowed\r\n" (main.rs:18)
METHOD_NOT_ALLOWED_HEADER ==
    <<72, 84, 84, 80, 47, 49, 46, 49, 32, 52, 48, 53, 32, 77, 101, 116, 104, 111,
      100, 32, 78, 111, 116, 32, 65, 108, 108, 111, 119, 101, 100, 13, 10>>
\* "HTTP/1.1 200 OK\r\n", the literal of serve_file, serve_user_agent, serve_echo
OK_STATUS_LINE ==
    <<72, 84, 84, 80, 47, 49, 46, 49, 32, 50, 48, 48, 32, 79, 75, 13, 10>>

StrPOST == <<80, 79, 83, 84>>
StrGET == <<71, 69, 84>>
\* "/files/", "/user-agent", "/echo/", "/"
PathFiles == <<47, 102, 105, 108, 101, 115, 47>>
PathUserAgent == <<47, 117, 115, 101, 114, 45, 97, 103, 101, 110, 116>>
PathEcho == <<47, 101, 99, 104, 111, 47>>
PathRoot == <<47>>
\* "content-length:", "user-agent:", "accept-encoding:", "gzip"
KeyContentLength ==
    <<99, 111, 110, 116, 101, 110, 116, 45, 108, 101, 110, 103, 116, 104, 58>>
KeyUserAgent == <<117, 115, 101, 114, 45, 97, 103, 101, 110, 116, 58>>
KeyAcceptEncoding ==
    <<97, 99, 99, 101, 112, 116, 45, 101, 110, 99, 111, 100, 105, 110, 103, 58>>
TokGzip == <<103, 122, 105, 112>>
\* "Content-Type", "Content-Encoding", "Content-Length"
HdrContentType == <<67, 111, 110, 116, 101, 110, 116, 45, 84, 121, 112, 101>>
HdrContentEncoding ==
    <<67, 111, 110, 116, 101, 110, 116, 45, 69, 110, 99, 111, 100, 105, 110, 103>>
HdrContentLength ==
    <<67, 111, 110, 116, 101, 110, 116, 45, 76, 101, 110, 103, 116, 104>>
\* "text/plain", "application/octet-stream"
TextPlain == <<116, 101, 120, 116, 47, 112, 108, 97, 105, 110>>
OctetStream ==
    <<97, 112, 112, 108, 105, 99, 97, 116, 105, 111, 110, 47, 111, 99, 116, 101,
      116, 45, 115, 116, 114, 101, 97, 109>>
CRLF == <<13, 10>>

(***************************************************************************)
(* The string operations of the standard library the source uses.          *)
(***************************************************************************)
\* `let y = x` of the source: the one element of {f(y) : y \in {x}} is f of
\* the value of x, x evaluated once
The(S) == CHOOSE v \in S : TRUE

SetMin(S) == CHOOSE x \in S : \A y \in S : x <= y
SetMax(S) == CHOOSE x \in S : \A y \in S : x >= y

\* &s[n..]
Skip(s, n) == SubSeq(s, n + 1, Len(s))

\* char::is_whitespace on ASCII: tab, LF, VT, FF, CR, space
IsWhitespace(b) == b \in {9, 10, 11, 12, 13, 32}

\* str::to_lowercase on ASCII
to_lowercase(s) ==
    [i \in 1..Len(s) |-> IF s[i] \in 65..90 THEN s[i] + 32 ELSE s[i]]

\* str::starts_with
starts_with(s, p) == Len(s) >= Len(p) /\ SubSeq(s, 1, Len(p)) = p

\* str::trim
trim(s) ==
    LET keep == {i \in 1..Len(s) : ~IsWhitespace(s[i])}
    IN  IF keep = {} THEN <<>> ELSE SubSeq(s, SetMin(keep), SetMax(keep))

\* str::split on single separators: empty pieces are kept
RECURSIVE SplitAt(_, _)
SplitAt(s, seps) ==
    LET split(t) ==
          LET cut == {i \in 1..Len(t) : t[i] \in seps}
          IN  IF cut = {} THEN <<t>>
              ELSE <<SubSeq(t, 1, SetMin(cut) - 1)>>
                   \o SplitAt(Skip(t, SetMin(cut)), seps)
    IN  The({split(bound) : bound \in {s}})

NonEmpty(t) == t # <<>>

\* str::split_whitespace: the maximal runs of non-whitespace
split_whitespace(s) == SelectSeq(SplitAt(s, {9, 10, 11, 12, 13, 32}), NonEmpty)

\* str::lines: split after each LF, the LF and a CR before it are dropped, a
\* last piece that is empty is no line
StripCR(l) ==
    IF l # <<>> /\ l[Len(l)] = 13 THEN SubSeq(l, 1, Len(l) - 1) ELSE l

lines(s) ==
    LET of(pieces) ==
          LET n == Len(pieces)
          IN  [i \in 1..(IF pieces[n] = <<>> THEN n - 1 ELSE n) |->
                  IF i < n THEN StripCR(pieces[i]) ELSE pieces[i]]
    IN  The({of(bound) : bound \in {SplitAt(s, {10})}})

\* usize::from_str, -1 for an Err: an optional '+', then one or more digits
RECURSIVE DigitsValue(_)
DigitsValue(d) ==
    IF d = <<>> THEN 0
    ELSE 10 * DigitsValue(SubSeq(d, 1, Len(d) - 1)) + (d[Len(d)] - 48)

parse_usize(t) ==
    LET d == IF t # <<>> /\ t[1] = 43 THEN Skip(t, 1) ELSE t
    IN  IF d # <<>> /\ \A i \in 1..Len(d) : d[i] \in 48..57
        THEN DigitsValue(d) ELSE -1

\* usize::to_string
RECURSIVE to_string(_)
to_string(n) ==
    IF n < 10 THEN <<48 + n>> ELSE to_string(n \div 10) \o <<48 + (n % 10)>>

\* Iterator::find over the lines: the first line the key starts, <<>> in a
\* singleton or the empty sequence for None
FindLine(headers, key) ==
    LET find(ls) ==
          LET hit == {i \in 1..Len(ls) : starts_with(to_lowercase(ls[i]), key)}
          IN  IF hit = {} THEN <<>> ELSE <<ls[SetMin(hit)]>>
    IN  The({find(bound) : bound \in {lines(headers)}})

(***************************************************************************)
(* The Request Reader: parse_request and read_body.                        *)
(***************************************************************************)
Range(s) == {s[i] : i \in 1..Len(s)}

\* read_line that takes bytes that are not UTF-8 as they come
read_line_lossy(s, pos, ending) ==
    LET rest == Skip(s, pos)
        nl == {i \in 1..Len(rest) : rest[i] = 10}
        n == IF nl = {} THEN Len(rest) ELSE SetMin(nl)
    IN  IF nl = {} /\ ending = "open"
          THEN [kind |-> "block", line |-> <<>>, next |-> pos]
        ELSE IF nl = {} /\ ending = "err"
          THEN [kind |-> "err", line |-> <<>>, next |-> pos]
        ELSE [kind |-> "ok", line |-> SubSeq(rest, 1, n), next |-> pos + n]

\* BufRead::read_line on the stream s from offset pos.  The line runs to the
\* next LF, or to the end of the bytes when the client has ended the stream
\* ("eof": Ok, possibly with no byte at all).  It is an Err when the socket
\* fails ("err") or when the bytes are not UTF-8, and the call does not return
\* ("block") while the client keeps the connection open and silent ("open").
read_line(s, pos, ending) ==
    LET rest == Skip(s, pos)
        nl == {i \in 1..Len(rest) : rest[i] = 10}
        n == IF nl = {} THEN Len(rest) ELSE SetMin(nl)
        line == SubSeq(rest, 1, n)
    IN  IF nl = {} /\ ending = "open"
          THEN [kind |-> "block", line |-> <<>>, next |-> pos]
        ELSE IF (nl = {} /\ ending = "err") \/ 255 \in Range(line)
          THEN [kind |-> "err", line |-> <<>>, next |-> pos]
        ELSE [kind |-> "ok", line |-> line, next |-> pos + n]

\* the loop of parse_request (main.rs:117-126)
RECURSIVE read_headers(_, _, _, _)
read_headers(s, pos, ending, acc) ==
    LET loop(r) ==
          IF r.kind # "ok" THEN [kind |-> r.kind, headers |-> acc, next |-> pos]
          ELSE IF trim(r.line) = <<>>
            THEN [kind |-> "ok", headers |-> acc, next |-> r.next]
          ELSE read_headers(s, r.next, ending, acc \o r.line)
    IN  The({loop(bound) : bound \in {read_line(s, pos, ending)}})

\* Iterator::next().unwrap_or("") and nth(k) on the tokens
TokenOr(parts, k) == IF Len(parts) >= k THEN parts[k] ELSE <<>>

parse_request(s, pos, ending) ==
    LET rest(r) ==
          LET parts == split_whitespace(trim(r.line))
              head(h) ==
                IF h.kind # "ok"
                  THEN [kind |-> h.kind, method |-> <<>>, path |-> <<>>,
                        headers |-> <<>>,
                        next |-> h.next, context |-> "Failed to read header line"]
                ELSE [kind |-> "ok", method |-> TokenOr(parts, 1),
                      path |-> TokenOr(parts, 2),
                      headers |-> h.headers, next |-> h.next, context |-> ""]
          IN  IF r.kind # "ok"
                THEN [kind |-> r.kind, method |-> <<>>, path |-> <<>>, headers |-> <<>>,
                      next |-> pos, context |-> "Failed to read request line"]
              ELSE The({head(bound) : bound \in {read_headers(s, r.next, ending, <<>>)}})
    IN  The({rest(bound) : bound \in {read_line(s, pos, ending)}})

\* the content_length of read_body (main.rs:132-136)
content_length(headers) ==
    LET length(found) ==
          LET parts == IF found = <<>> THEN <<>> ELSE split_whitespace(found[1])
              parsed == IF Len(parts) >= 2 THEN parse_usize(parts[2]) ELSE -1
          IN  IF parsed = -1 THEN 0 ELSE parsed
    IN  The({length(bound) : bound \in {FindLine(headers, KeyContentLength)}})

\* one read in place of read_exact: the bytes there are, n at most
read_some(s, pos, ending, n) ==
    IF Len(s) - pos >= n
      THEN [kind |-> "ok", body |-> SubSeq(s, pos + 1, pos + n), next |-> pos + n]
    ELSE IF ending = "open" THEN [kind |-> "block", body |-> <<>>, next |-> pos]
    ELSE IF ending = "err" THEN [kind |-> "err", body |-> <<>>, next |-> pos]
    ELSE [kind |-> "ok", body |-> Skip(s, pos), next |-> Len(s)]

\* read_exact that goes on waiting when the stream has ended
read_exact_waiting(s, pos, ending, n) ==
    IF Len(s) - pos >= n
      THEN [kind |-> "ok", body |-> SubSeq(s, pos + 1, pos + n), next |-> pos + n]
    ELSE [kind |-> "block", body |-> <<>>, next |-> pos]

\* Read::read_exact of n bytes from offset pos
read_exact(s, pos, ending, n) ==
    IF Len(s) - pos >= n
      THEN [kind |-> "ok", body |-> SubSeq(s, pos + 1, pos + n), next |-> pos + n]
    ELSE IF ending = "open" THEN [kind |-> "block", body |-> <<>>, next |-> pos]
    ELSE [kind |-> "err", body |-> <<>>, next |-> pos]

read_body(s, pos, ending, headers) ==
    LET read(n) ==
          IF n > 0 THEN read_exact(s, pos, ending, n)
          ELSE [kind |-> "ok", body |-> <<>>, next |-> pos]
    IN  The({read(bound) : bound \in {content_length(headers)}})

(***************************************************************************)
(* The Content Encoder: supports_gzip and compress_gzip.                   *)
(***************************************************************************)
IsGzip(encoding) == trim(encoding) = TokGzip

\* supports_gzip looking at every accept-encoding line
supports_gzip_any_line(headers) ==
    LET ls == lines(headers)
    IN  \E i \in 1..Len(ls) :
           /\ starts_with(to_lowercase(ls[i]), KeyAcceptEncoding)
           /\ \E e \in Range(SplitAt(Skip(ls[i], Len(KeyAcceptEncoding)), {44})) :
                 IsGzip(e)

supports_gzip(headers) ==
    LET any(encodings) == \E i \in 1..Len(encodings) : IsGzip(encodings[i])
        named(found) ==
          IF found = <<>> THEN FALSE
          ELSE The({any(bound) : bound \in {SplitAt(Skip(found[1], Len(KeyAcceptEncoding)), {44})}})
    IN  The({named(bound) : bound \in {FindLine(headers, KeyAcceptEncoding)}})

\* a 32 bit value, least significant byte first (the values of the model are
\* far below 2^32: nothing wraps)
LE32(n) ==
    <<n % 256, (n \div 256) % 256, (n \div 65536) % 256, (n \div 16777216) % 256>>

RECURSIVE ByteSum(_)
ByteSum(d) ==
    LET sum(b) == IF b = <<>> THEN 0 ELSE b[1] + ByteSum(Skip(b, 1))
    IN  The({sum(bound) : bound \in {d}})

\* The gzip member GzEncoder writes: the ten byte header (magic 31 139,
\* method 8, no flags, no time, OS 255), the DEFLATE stream, then the check
\* value and the length of the data, 32 bits each.  The DEFLATE stream is
\* modelled as one stored block (final, LEN, NLEN, the bytes) and the CRC-32 by
\* the sum of the bytes: the encoder's bit-level coding is the library's.
GzipMember(data) ==
    <<31, 139, 8, 0, 0, 0, 0, 0, 0, 255>>
    \o <<1, Len(data) % 256, Len(data) \div 256,
         255 - (Len(data) % 256), 255 - (Len(data) \div 256)>>
    \o data
    \o LE32(ByteSum(data)) \o LE32(Len(data))

\* no compression at all
compress_none(data) == data

compress_gzip(data) == GzipMember(data)

(***************************************************************************)
(* Response and Response::build.                                           *)
(***************************************************************************)
Response(status_line, hdrs, body) ==
    [status_line |-> status_line, headers |-> hdrs, body |-> body]

\* the value of `response` before a handler has returned
NoResponse == Response(<<>>, <<>>, <<>>)

RECURSIVE HeaderBytes(_)
HeaderBytes(hdrs) ==
    LET bytes(h) ==
          IF h = <<>> THEN <<>>
          ELSE h[1][1] \o <<58, 32>> \o h[1][2] \o CRLF \o HeaderBytes(Skip(h, 1))
    IN  The({bytes(bound) : bound \in {hdrs}})

build(r) == r.status_line \o HeaderBytes(r.headers) \o CRLF \o r.body

(***************************************************************************)
(* The handlers.                                                           *)
(***************************************************************************)
\* extract_user_agent with the key compared as it is written
extract_user_agent_exact(headers) ==
    LET ls == lines(headers)
        hit == {i \in 1..Len(ls) : starts_with(ls[i], <<85, 115, 101, 114, 45, 65, 103, 101, 110, 116, 58>>)}
    IN  IF hit = {} THEN <<>> ELSE trim(Skip(ls[SetMin(hit)], Len(KeyUserAgent)))

extract_user_agent(headers) ==
    LET value(found) ==
          IF found = <<>> THEN <<>> ELSE trim(Skip(found[1], Len(KeyUserAgent)))
    IN  The({value(bound) : bound \in {FindLine(headers, KeyUserAgent)}})

\* serve_file with the length of the file's bytes for every Content-Length
serve_contents_plain_length(contents, headers) ==
    IF supports_gzip(headers)
      THEN Response(OK_STATUS_LINE,
                    << <<HdrContentType, OctetStream>>,
                       <<HdrContentEncoding, TokGzip>>,
                       <<HdrContentLength, to_string(Len(contents))>> >>,
                    compress_gzip(contents))
      ELSE Response(OK_STATUS_LINE,
                    << <<HdrContentType, OctetStream>>,
                       <<HdrContentLength, to_string(Len(contents))>> >>,
                    contents)

\* serve_file from `let content_length` on (main.rs:218-247)
serve_contents(contents, headers) ==
    IF supports_gzip(headers)
      THEN Response(OK_STATUS_LINE,
                    << <<HdrContentType, OctetStream>>,
                       <<HdrContentEncoding, TokGzip>>,
                       <<HdrContentLength, to_string(Len(compress_gzip(contents)))>> >>,
                    compress_gzip(contents))
      ELSE Response(OK_STATUS_LINE,
                    << <<HdrContentType, OctetStream>>,
                       <<HdrContentLength, to_string(Len(contents))>> >>,
                    contents)

\* serve_user_agent with the length taken before the compression
serve_user_agent_plain_length(user_agent, headers) ==
    IF supports_gzip(headers)
      THEN Response(OK_STATUS_LINE,
                    << <<HdrContentType, TextPlain>>,
                       <<HdrContentEncoding, TokGzip>>,
                       <<HdrContentLength, to_string(Len(user_agent))>> >>,
                    compress_gzip(user_agent))
      ELSE Response(OK_STATUS_LINE,
                    << <<HdrContentType, TextPlain>>,
                       <<HdrContentLength, to_string(Len(user_agent))>> >>,
                    user_agent)

serve_user_agent(user_agent, headers) ==
    IF supports_gzip(headers)
      THEN Response(OK_STATUS_LINE,
                    << <<HdrContentType, TextPlain>>,
                       <<HdrContentEncoding, TokGzip>>,
                       <<HdrContentLength, to_string(Len(compress_gzip(user_agent)))>> >>,
                    compress_gzip(user_agent))
      ELSE Response(OK_STATUS_LINE,
                    << <<HdrContentType, TextPlain>>,
                       <<HdrContentLength, to_string(Len(user_agent))>> >>,
                    user_agent)

\* serve_echo with the text taken one byte early
serve_echo_early(path, headers) ==
    LET echo_str == Skip(path, 5)
    IN  IF supports_gzip(headers)
          THEN Response(OK_STATUS_LINE,
                        << <<HdrContentType, TextPlain>>,
                           <<HdrContentEncoding, TokGzip>>,
                           <<HdrContentLength, to_string(Len(compress_gzip(echo_str)))>> >>,
                        compress_gzip(echo_str))
          ELSE Response(OK_STATUS_LINE,
                        << <<HdrContentType, TextPlain>>,
                           <<HdrContentLength, to_string(Len(echo_str))>> >>,
                        echo_str)

serve_echo(path, headers) ==
    LET echo_str == Skip(path, 6)
    IN  IF supports_gzip(headers)
          THEN Response(OK_STATUS_LINE,
                        << <<HdrContentType, TextPlain>>,
                           <<HdrContentEncoding, TokGzip>>,
                           <<HdrContentLength, to_string(Len(compress_gzip(echo_str)))>> >>,
                        compress_gzip(echo_str))
          ELSE Response(OK_STATUS_LINE,
                        << <<HdrContentType, TextPlain>>,
                           <<HdrContentLength, to_string(Len(echo_str))>> >>,
                        echo_str)

(***************************************************************************)
(* The file store under the configured directory.  `fs` maps the path of    *)
(* each regular file to its bytes; the directory itself is the only         *)
(* directory there is.                                                      *)
(***************************************************************************)
\* Path::join: an absolute name replaces the directory
Join(dir, name) ==
    IF name # <<>> /\ name[1] = 47 THEN name
    ELSE IF dir[Len(dir)] = 47 THEN dir \o name
    ELSE dir \o <<47>> \o name

Dirs(dir) == {Join(dir, <<>>)}

Parent(fp) ==
    LET slashes == {i \in 1..Len(fp) : fp[i] = 47}
    IN  IF slashes = {} THEN <<>> ELSE SubSeq(fp, 1, SetMax(slashes))

\* Path::exists
Exists(fs, dir, fp) == fp \in DOMAIN fs \/ fp \in Dirs(dir)

\* whether File::create can succeed: the parent is a directory and the path
\* is none
CanCreate(dir, fp) == fp \notin Dirs(dir) /\ Parent(fp) \in Dirs(dir)

\* the file opened for writing without being truncated
Truncated_not(fs, fp) ==
    [p \in DOMAIN fs \cup {fp} |-> IF p \in DOMAIN fs THEN fs[p] ELSE <<>>]

\* File::create: the file exists and is empty
Truncated(fs, fp) ==
    [p \in DOMAIN fs \cup {fp} |-> IF p = fp THEN <<>> ELSE fs[p]]

\* write(2) of chunk at offset off: a gap before off reads as zeros
WriteAt(data, off, chunk) ==
    LET padded == data \o [i \in 1..(off - Len(data)) |-> 0]
    IN  SubSeq(padded, 1, off) \o chunk \o Skip(padded, off + Len(chunk))

(***************************************************************************)
(* The Router: the match of handle_client, handle_post and handle_get up    *)
(* to their first access to the file store.  `next` is where the worker     *)
(* goes on, `fs` the file store it leaves, `handler` the arm that ran.      *)
(***************************************************************************)
Step(handler, next, resp, filepath, fs) ==
    [handler |-> handler, next |-> next, response |-> resp, filepath |-> filepath,
     fs |-> fs]

\* handle_post answering 404 when the file cannot be created
handle_post_lenient(path, body, dir, fs) ==
    IF starts_with(path, PathFiles)
      THEN LET filepath == Join(dir, Skip(path, 7))
           IN  IF CanCreate(dir, filepath)
                 THEN Step("file_post", "post_write", NoResponse, filepath, Truncated(fs, filepath))
                 ELSE Step("file_post", "write_all",
                           Response(NOT_FOUND_HEADER, <<>>, <<>>), filepath, fs)
      ELSE Step("method_not_allowed", "write_all",
                Response(METHOD_NOT_ALLOWED_HEADER, <<>>, <<>>), <<>>, fs)

handle_post(path, body, dir, fs) ==
    IF starts_with(path, PathFiles)
      THEN LET filepath == Join(dir, Skip(path, 7))
           IN  IF CanCreate(dir, filepath)
                 THEN Step("file_post", "post_write", NoResponse, filepath, Truncated(fs, filepath))
                 ELSE Step("file_post", "failed", NoResponse, filepath, fs)
      ELSE Step("method_not_allowed", "write_all",
                Response(METHOD_NOT_ALLOWED_HEADER, <<>>, <<>>), <<>>, fs)

\* handle_get with the echo route tested without its closing slash
handle_get_loose(path, headers, dir, fs) ==
    IF starts_with(path, PathFiles)
      THEN LET filepath == Join(dir, Skip(path, 7))
           IN  IF Exists(fs, dir, filepath)
                 THEN Step("file_get", "get_open", NoResponse, filepath, fs)
                 ELSE Step("file_get", "write_all",
                           Response(NOT_FOUND_HEADER, <<>>, <<>>), <<>>, fs)
    ELSE IF path = PathUserAgent
      THEN Step("user_agent", "write_all",
                serve_user_agent(extract_user_agent(headers), headers), <<>>, fs)
    ELSE IF starts_with(path, SubSeq(PathEcho, 1, 5))
      THEN Step("echo", "write_all", serve_echo(path, headers), <<>>, fs)
    ELSE IF path = PathRoot
      THEN Step("ok", "write_all", Response(OK_HEADER, <<>>, <<>>), <<>>, fs)
    ELSE Step("not_found", "write_all", Response(NOT_FOUND_HEADER, <<>>, <<>>), <<>>, fs)

\* handle_get creating the file it does not find
handle_get_touch(path, headers, dir, fs) ==
    IF starts_with(path, PathFiles)
      THEN LET filepath == Join(dir, Skip(path, 7))
           IN  IF Exists(fs, dir, filepath)
                 THEN Step("file_get", "get_open", NoResponse, filepath, fs)
                 ELSE Step("file_get", "write_all",
                           Response(NOT_FOUND_HEADER, <<>>, <<>>), <<>>,
                           Truncated(fs, filepath))
    ELSE IF path = PathUserAgent
      THEN Step("user_agent", "write_all",
                serve_user_agent(extract_user_agent(headers), headers), <<>>, fs)
    ELSE IF starts_with(path, PathEcho)
      THEN Step("echo", "write_all", serve_echo(path, headers), <<>>, fs)
    ELSE IF path = PathRoot
      THEN Step("ok", "write_all", Response(OK_HEADER, <<>>, <<>>), <<>>, fs)
    ELSE Step("not_found", "write_all", Response(NOT_FOUND_HEADER, <<>>, <<>>), <<>>, fs)

handle_get(path, headers, dir, fs) ==
    IF starts_with(path, PathFiles)
      THEN LET filepath == Join(dir, Skip(path, 7))
           IN  IF Exists(fs, dir, filepath)
                 THEN Step("file_get", "get_open", NoResponse, filepath, fs)
                 ELSE Step("file_get", "write_all",
                           Response(NOT_FOUND_HEADER, <<>>, <<>>), <<>>, fs)
    ELSE IF path = PathUserAgent
      THEN Step("user_agent", "write_all",
                serve_user_agent(extract_user_agent(headers), headers), <<>>, fs)
    ELSE IF starts_with(path, PathEcho)
      THEN Step("echo", "write_all", serve_echo(path, headers), <<>>, fs)
    ELSE IF path = PathRoot
      THEN Step("ok", "write_all", Response(OK_HEADER, <<>>, <<>>), <<>>, fs)
    ELSE Step("not_found", "write_all", Response(NOT_FOUND_HEADER, <<>>, <<>>), <<>>, fs)

\* the match on the method done without regard to case
dispatch_anycase(req, dir, fs) ==
    IF to_lowercase(req.method) = to_lowercase(StrPOST)
      THEN handle_post(req.path, req.body, dir, fs)
    ELSE IF to_lowercase(req.method) = to_lowercase(StrGET)
      THEN handle_get(req.path, req.headers, dir, fs)
    ELSE Step("method_not_allowed", "write_all",
              Response(METHOD_NOT_ALLOWED_HEADER, <<>>, <<>>), <<>>, fs)

\* the match on the method of handle_client (main.rs:88-96)
dispatch(req, dir, fs) ==
    IF req.method = StrPOST THEN handle_post(req.path, req.body, dir, fs)
    ELSE IF req.method = StrGET THEN handle_get(req.path, req.headers, dir, fs)
    ELSE Step("method_not_allowed", "write_all",
              Response(METHOD_NOT_ALLOWED_HEADER, <<>>, <<>>), <<>>, fs)

\* the worker going back for another request of the same connection
after_write_keep_alive == "parse_request"

\* where handle_client is once write_all and flush have returned Ok: it
\* returns, and the stream is dropped
after_write == "closed"

(***************************************************************************)
(* The clients.  The bounds of the model are the lengths of the echoed     *)
(* text and of the bodies sent, and the number of connections.              *)
(***************************************************************************)
MaxEcho == 3
MaxBody == 2
\* the connections of one run
MaxConns == 3

RECURSIVE SeqsUpTo(_, _)
SeqsUpTo(A, n) ==
    IF n = 0 THEN {<<>>}
    ELSE LET S == SeqsUpTo(A, n - 1)
         IN  S \cup {Append(x, a) : x \in {y \in S : Len(y) = n - 1}, a \in A}

\* texts over '%', '4', '1' (so that "%41" is one); bodies of every length up
\* to one more than a length that is declared, of the bytes 'x', 255, LF
EchoTexts == SeqsUpTo({37, 52, 49}, MaxEcho)
BodyBytes(n) ==
    [i \in 1..n |-> IF i % 3 = 1 THEN 120 ELSE IF i % 3 = 2 THEN 255 ELSE 10]
Bodies == {BodyBytes(n) : n \in 0..(MaxBody + 1)}

Version == <<32, 72, 84, 84, 80, 47, 49, 46, 49, 13, 10>>
Request(method, path, hdrs, body) ==
    method \o <<32>> \o path \o Version \o hdrs \o CRLF \o body

StrPUT == <<80, 85, 84>>
Strget == <<103, 101, 116>>
Methods == {StrGET, StrPOST, StrPUT, Strget}

PathFilesA == <<47, 102, 105, 108, 101, 115, 47, 97>>
PathFilesB == <<47, 102, 105, 108, 101, 115, 47, 98>>
PathFilesDeep == <<47, 102, 105, 108, 101, 115, 47, 122, 122, 47, 113>>
PathNope == <<47, 110, 111, 112, 101>>
FixedPaths ==
    {PathRoot, PathNope, PathUserAgent, PathFiles, PathFilesA, PathFilesB,
     PathFilesDeep, <<47, 101, 99, 104, 111>>, <<47, 102, 105, 108, 101, 115, 120>>, <<47, 117, 115, 101, 114, 45, 97, 103, 101, 110, 116, 47, 120>>}
Paths == FixedPaths \cup {PathEcho \o e : e \in EchoTexts}

\* "Accept-Encoding: gzip"
AcceptGzip == <<65, 99, 99, 101, 112, 116, 45, 69, 110, 99, 111, 100, 105, 110, 103, 58, 32, 103, 122, 105, 112, 13, 10>>
\* "Accept-Encoding: deflate"
AcceptDeflate == <<65, 99, 99, 101, 112, 116, 45, 69, 110, 99, 111, 100, 105, 110, 103, 58, 32, 100, 101, 102, 108, 97, 116, 101, 13, 10>>
AcceptEncodingLines ==
    {AcceptGzip, AcceptDeflate,
     \* "accept-encoding:gzip, deflate", "ACCEPT-ENCODING: deflate , gzip"
     <<97, 99, 99, 101, 112, 116, 45, 101, 110, 99, 111, 100, 105, 110, 103, 58, 103, 122, 105, 112, 44, 32, 100, 101, 102, 108, 97, 116, 101, 13, 10>>,
     <<65, 67, 67, 69, 80, 84, 45, 69, 78, 67, 79, 68, 73, 78, 71, 58, 32, 100, 101, 102, 108, 97, 116, 101, 32, 44, 32, 103, 122, 105, 112, 13, 10>>,
     \* "Accept-Encoding: GZIP", "Accept-Encoding: gzip;q=1.0", "Accept-Encoding: *"
     <<65, 99, 99, 101, 112, 116, 45, 69, 110, 99, 111, 100, 105, 110, 103, 58, 32, 71, 90, 73, 80, 13, 10>>,
     <<65, 99, 99, 101, 112, 116, 45, 69, 110, 99, 111, 100, 105, 110, 103, 58, 32, 103, 122, 105, 112, 59, 113, 61, 49, 46, 48, 13, 10>>,
     <<65, 99, 99, 101, 112, 116, 45, 69, 110, 99, 111, 100, 105, 110, 103, 58, 32, 42, 13, 10>>}
\* "User-Agent: t/1", "user-agent:t/1 ", "USER-AGENT:  v/2 ", "X-A: b",
\* "Connection: keep-alive"
UserAgentLine == <<85, 115, 101, 114, 45, 65, 103, 101, 110, 116, 58, 32, 116, 47, 49, 13, 10>>
KeepAlive == <<67, 111, 110, 110, 101, 99, 116, 105, 111, 110, 58, 32, 107, 101, 101, 112, 45, 97, 108, 105, 118, 101, 13, 10>>
OtherLines ==
    {UserAgentLine, KeepAlive,
     <<117, 115, 101, 114, 45, 97, 103, 101, 110, 116, 58, 116, 47, 49, 32, 13, 10>>,
     <<85, 83, 69, 82, 45, 65, 71, 69, 78, 84, 58, 32, 32, 118, 47, 50, 32, 13, 10>>,
     <<88, 45, 65, 58, 32, 98, 13, 10>>}

\* "Content-Length: n", and the same without the space
ContentLengthLine(n) == <<67, 111, 110, 116, 101, 110, 116, 45, 76, 101, 110, 103, 116, 104, 58, 32>> \o to_string(n) \o CRLF
ContentLengthTight(n) == <<67, 111, 110, 116, 101, 110, 116, 45, 76, 101, 110, 103, 116, 104, 58>> \o to_string(n) \o CRLF
ContentLengthLines ==
    {ContentLengthLine(n) : n \in 0..MaxBody}
    \cup {ContentLengthTight(MaxBody),
          \* "CONTENT-LENGTH: +1", "Content-Length: x"
          <<67, 79, 78, 84, 69, 78, 84, 45, 76, 69, 78, 71, 84, 72, 58, 32, 43>> \o <<49>> \o CRLF,
          <<67, 111, 110, 116, 101, 110, 116, 45, 76, 101, 110, 103, 116, 104, 58, 32, 120, 13, 10>>,
          ContentLengthLine(1) \o ContentLengthLine(MaxBody),
          ContentLengthLine(0) \o ContentLengthLine(1),
          AcceptGzip \o ContentLengthLine(1)}

Prefixes(s) == {SubSeq(s, 1, n) : n \in 0..Len(s)}

\* every method on every path, with and without gzip
RoutingStreams ==
    {Request(m, p, h, <<>>) : m \in Methods, p \in Paths, h \in {<<>>, AcceptGzip}}

\* request lines that lack the method, the path or the version
OddStreams ==
    {CRLF \o CRLF, StrGET \o CRLF \o CRLF, StrPOST \o CRLF \o CRLF,
     <<32, 32>> \o StrGET \o <<9, 32>> \o PathRoot \o <<32>> \o CRLF \o CRLF,
     StrGET \o <<32>> \o PathEcho \o <<52>> \o <<10, 10>>}

\* one or two header lines on the paths whose answer reads the headers
HeaderStreams ==
    {Request(StrGET, p, h1 \o h2, <<>>) :
        p \in {PathEcho \o <<37, 52>>, PathUserAgent, PathFilesA, PathRoot},
        h1 \in AcceptEncodingLines \cup OtherLines \cup {<<>>},
        h2 \in AcceptEncodingLines \cup OtherLines}

\* a declared length against the bytes that follow
BodyStreams ==
    {Request(m, p, h, b) :
        m \in {StrPOST, StrGET}, p \in {PathFilesA, PathFilesDeep, PathNope},
        h \in ContentLengthLines \cup {<<>>}, b \in Bodies}

\* a request cut anywhere, a second request behind it
PipelinedStream ==
    Request(StrPOST, PathFilesB, UserAgentLine \o ContentLengthLine(2) \o KeepAlive,
            <<120, 120>>)
    \o Request(StrGET, PathEcho \o <<52>>, KeepAlive, <<>>)
CutStreams ==
    Prefixes(PipelinedStream)
    \cup Prefixes(Request(StrGET \o <<255>>, PathRoot, <<>>, <<>>))
    \cup Prefixes(Request(StrGET, PathRoot, <<88, 255, 58, 32, 98>> \o CRLF, <<>>))
    \cup {Request(StrGET, PathRoot, KeepAlive, <<>>) \o r :
            r \in {Request(StrGET, PathEcho \o <<49>>, <<>>, <<>>),
                   Request(StrPUT, PathRoot, <<>>, <<>>)}}

Endings == {"eof", "err", "open"}

Client(bytes, ending) == [bytes |-> bytes, ending |-> ending, accept |-> "ok"]
\* a connection that accept() reports as an error
RefusedClient == [bytes |-> <<>>, ending |-> "eof", accept |-> "err"]

\* the clients of the runs with several connections
PostA(b) == Client(Request(StrPOST, PathFilesA, ContentLengthLine(Len(b)), b), "eof")
GetA(h) == Client(Request(StrGET, PathFilesA, h, <<>>), "eof")
EchoClient(e) == Client(Request(StrGET, PathEcho \o e, <<>>, <<>>), "eof")
SmallClients ==
    {PostA(<<120, 121>>), PostA(<<122>>), GetA(<<>>), GetA(AcceptGzip),
     EchoClient(<<49>>), EchoClient(<<52>>)}
\* a client that sends "GET" and then neither a byte more nor the end
StalledClient == Client(StrGET, "open")

ClientLists ==
    LET lists ==
          {<<Client(s, "eof")>> : s \in RoutingStreams \cup OddStreams \cup HeaderStreams}
          \cup {<<Client(s, e)>> : s \in BodyStreams \cup CutStreams, e \in Endings}
          \cup {<<c1, c2>> : c1 \in SmallClients \cup {RefusedClient, StalledClient},
                             c2 \in SmallClients}
          \cup {<<PostA(<<120, 121>>), PostA(<<122>>), GetA(<<>>)>>,
                <<EchoClient(<<49>>), EchoClient(<<52>>), EchoClient(<<37>>)>>,
                <<StalledClient, RefusedClient, EchoClient(<<49>>)>>}
    IN  {l \in lists : Len(l) <= MaxConns}

\* the clients of the runs under fair scheduling: a POST cut anywhere and
\* ended in each way, and the lists of several connections
FairClientLists ==
    {<<Client(s, e)>> :
        s \in Prefixes(Request(StrPOST, PathFilesA, ContentLengthLine(2), <<120, 121>>)),
        e \in Endings}
    \cup {l \in ClientLists : Len(l) > 1}

\* "old", what ./a holds when it exists at startup
OldContent == <<111, 108, 100>>
InitialStores ==
    {<<>>, [p \in {Join(DEFAULT_DIRECTORY, <<97>>)} |-> OldContent]}

(***************************************************************************)
(* The state.                                                               *)
(*   clients    the connections that arrive, in the order of arrival        *)
(*   directory  the configured directory                                    *)
(*   files      the file store                                              *)
(*   accepted   how many connections the accept loop has taken              *)
(* and for each connection                                                  *)
(*   pc         where its worker is: "pending" before accept, "refused"     *)
(*              when accept failed, then parse_request, read_body,          *)
(*              dispatch, post_write, get_open, get_read, write_all, and    *)
(*              "closed" (handle_client returned Ok) or "failed" (Err)      *)
(*   pos        the bytes of the stream the reader has consumed             *)
(*   request    method, path, headers, body as read so far                  *)
(*   handle     the open file: its path and offset                          *)
(*   contents   the bytes read_to_end has collected                         *)
(*   response   the Response the handler returned                           *)
(*   out        the bytes written to the socket                             *)
(*   error      the error handle_client returned                            *)
(*   handler    the arm of the router that ran                              *)
(*   answered   the connections that were closed, their response written,   *)
(*              when the handler of this one began                          *)
(***************************************************************************)
VARIABLES clients, directory, files, accepted,
          pc, pos, request, handle, contents, response, out, error,
          handler, answered

vars == <<clients, directory, files, accepted,
          pc, pos, request, handle, contents, response, out, error,
          handler, answered>>

Conns == 1..Len(clients)

NoRequest == [method |-> <<>>, path |-> <<>>, headers |-> <<>>, body |-> <<>>]
NoHandle == [path |-> <<>>, off |-> 0]

Start(lists) ==
    /\ clients \in lists
    /\ directory = DEFAULT_DIRECTORY
    /\ files \in InitialStores
    /\ accepted = 0
    /\ pc = [c \in Conns |-> "pending"]
    /\ pos = [c \in Conns |-> 0]
    /\ request = [c \in Conns |-> NoRequest]
    /\ handle = [c \in Conns |-> NoHandle]
    /\ contents = [c \in Conns |-> <<>>]
    /\ response = [c \in Conns |-> NoResponse]
    /\ out = [c \in Conns |-> <<>>]
    /\ error = [c \in Conns |-> ""]
    /\ handler = [c \in Conns |-> ""]
    /\ answered = [c \in Conns |-> {}]

Init == Start(ClientLists)

\* every worker reading the stream of the first connection
Stream_first(c) == clients[1]

\* the TcpStream that main moves into the worker of connection c
\* (main.rs:56-59): the worker's own, and no other's
Stream(c) == clients[c]

\* a worker that reads the next request when a step returned an Err
Fail_retry(c, why) ==
    /\ pc' = [pc EXCEPT ![c] = "parse_request"]
    /\ error' = [error EXCEPT ![c] = why]

\* a worker returns an Err: nothing more happens on its connection
Fail(c, why) ==
    /\ pc' = [pc EXCEPT ![c] = "failed"]
    /\ error' = [error EXCEPT ![c] = why]

\* the accept loop running the worker itself, and so waiting for its end
Inline(p, n) == \A c \in 1..n : p[c] \in {"closed", "failed", "refused"}

\* thread::spawn (main.rs:58): it returns at once, whatever the workers
\* spawned before are doing, and the loop takes its next turn
Spawned(p, n) == TRUE

\* main: one turn of `for stream in listener.incoming()` (main.rs:54-66)
Accept ==
    /\ accepted < Len(clients)
    /\ Spawned(pc, accepted)
    /\ accepted' = accepted + 1
    /\ pc' = [pc EXCEPT ![accepted + 1] =
                IF clients[accepted + 1].accept = "ok" THEN "parse_request"
                ELSE "refused"]
    /\ UNCHANGED <<clients, directory, files, pos, request, handle, contents,
                   response, out, error,
                   handler, answered>>

\* handle_client, main.rs:85
ParseRequest(c) ==
    /\ pc[c] = "parse_request"
    /\ \E r \in {parse_request(Stream(c).bytes, pos[c], Stream(c).ending)} :
           /\ r.kind # "block"
           /\ IF r.kind = "ok"
                THEN /\ pc' = [pc EXCEPT ![c] = "read_body"]
                     /\ request' = [request EXCEPT ![c] =
                            [method |-> r.method, path |-> r.path,
                             headers |-> r.headers, body |-> <<>>]]
                     /\ pos' = [pos EXCEPT ![c] = r.next]
                     /\ UNCHANGED error
                ELSE /\ Fail(c, r.context)
                     /\ UNCHANGED <<request, pos>>
    /\ UNCHANGED <<clients, directory, files, accepted, handle, contents,
                   response, out,
                   handler, answered>>

\* handle_client, main.rs:86
ReadBody(c) ==
    /\ pc[c] = "read_body"
    /\ \E r \in {read_body(Stream(c).bytes, pos[c], Stream(c).ending,
                           request[c].headers)} :
           /\ r.kind # "block"
           /\ IF r.kind = "ok"
                THEN /\ pc' = [pc EXCEPT ![c] = "dispatch"]
                     /\ request' = [request EXCEPT ![c].body = r.body]
                     /\ pos' = [pos EXCEPT ![c] = r.next]
                     /\ UNCHANGED error
                ELSE /\ Fail(c, "Failed to read body")
                     /\ UNCHANGED <<request, pos>>
    /\ UNCHANGED <<clients, directory, files, accepted, handle, contents,
                   response, out,
                   handler, answered>>

\* handle_client, main.rs:88-96, to the handler's first access to the files
Dispatch(c) ==
    /\ pc[c] = "dispatch"
    /\ \E d \in {dispatch(request[c], directory, files)} :
           /\ files' = d.fs
           /\ response' = [response EXCEPT ![c] = d.response]
           /\ handle' = [handle EXCEPT ![c] = [path |-> d.filepath, off |-> 0]]
           /\ handler' = [handler EXCEPT ![c] = d.handler]
           /\ answered' = [answered EXCEPT ![c] = {x \in Conns : pc[x] = "closed"}]
           /\ IF d.next = "failed"
                THEN Fail(c, "io")
                ELSE pc' = [pc EXCEPT ![c] = d.next] /\ UNCHANGED error
    /\ UNCHANGED <<clients, directory, accepted, pos, request, contents, out>>

\* File::create returns an Err the file store does not explain (the
\* permissions, the disk): main.rs:153
CreateFail(c) ==
    /\ pc[c] = "dispatch"
    /\ request[c].method = StrPOST
    /\ starts_with(request[c].path, PathFiles)
    /\ Fail(c, "io")
    /\ UNCHANGED <<clients, directory, files, accepted, pos, request, handle,
                   contents, response, out,
                   handler, answered>>

\* write_all on the created file (main.rs:154): one write(2) of some of the
\* bytes left, and Ok(201) once none is left
PostWrite(c) ==
    /\ pc[c] = "post_write"
    /\ LET body == request[c].body
           fp == handle[c].path
           off == handle[c].off
       IN  \E k \in (IF off = Len(body) THEN {0} ELSE 1..(Len(body) - off)) :
             /\ files' = IF k = 0 THEN files
                         ELSE [files EXCEPT ![fp] =
                                  WriteAt(files[fp], off, SubSeq(body, off + 1, off + k))]
             /\ handle' = [handle EXCEPT ![c].off = off + k]
             /\ IF off + k = Len(body)
                  THEN /\ pc' = [pc EXCEPT ![c] = "write_all"]
                       /\ response' = [response EXCEPT ![c] =
                                          Response(CREATED_HEADER, <<>>, <<>>)]
                  ELSE UNCHANGED <<pc, response>>
    /\ UNCHANGED <<clients, directory, accepted, pos, request, contents, out, error,
                   handler, answered>>

\* a write(2) on the file returns an Err: what was written stays
PostWriteFail(c) ==
    /\ pc[c] = "post_write"
    /\ handle[c].off < Len(request[c].body)
    /\ Fail(c, "Failed to write file")
    /\ UNCHANGED <<clients, directory, files, accepted, pos, request, handle,
                   contents, response, out,
                   handler, answered>>

\* serve_file: File::open (main.rs:213)
GetOpen(c) ==
    /\ pc[c] = "get_open"
    /\ IF Exists(files, directory, handle[c].path)
         THEN pc' = [pc EXCEPT ![c] = "get_read"] /\ UNCHANGED error
         ELSE Fail(c, "io")
    /\ UNCHANGED <<clients, directory, files, accepted, pos, request, handle,
                   contents, response, out,
                   handler, answered>>

\* serve_file: read_to_end (main.rs:215), one read(2) at a time; the read that
\* returns no byte ends it, and the rest of serve_file builds the response
GetRead(c) ==
    /\ pc[c] = "get_read"
    /\ LET fp == handle[c].path
           avail == IF fp \in DOMAIN files THEN Skip(files[fp], handle[c].off)
                    ELSE <<>>
       IN  IF fp \in Dirs(directory)
             THEN /\ Fail(c, "Failed to read file")
                  /\ UNCHANGED <<handle, contents, response>>
           ELSE IF avail = <<>>
             THEN /\ pc' = [pc EXCEPT ![c] = "write_all"]
                  /\ response' = [response EXCEPT ![c] =
                                     serve_contents(contents[c], request[c].headers)]
                  /\ UNCHANGED <<handle, contents, error>>
           ELSE /\ contents' = [contents EXCEPT ![c] = contents[c] \o avail]
                /\ handle' = [handle EXCEPT ![c].off = handle[c].off + Len(avail)]
                /\ UNCHANGED <<pc, response, error>>
    /\ UNCHANGED <<clients, directory, files, accepted, pos, request, out,
                   handler, answered>>

\* handle_client, main.rs:98-102: the response is built and written
WriteResponse(c) ==
    /\ pc[c] = "write_all"
    /\ out' = [out EXCEPT ![c] = out[c] \o build(response[c])]
    /\ pc' = [pc EXCEPT ![c] = after_write]
    /\ UNCHANGED <<clients, directory, files, accepted, pos, request, handle,
                   contents, response, error,
                   handler, answered>>

\* write_all or flush on the socket returns an Err: the peer has none or a
\* part of the bytes
WriteFail(c) ==
    /\ pc[c] = "write_all"
    /\ \E n \in {0, Len(build(response[c])) - 1} :
          out' = [out EXCEPT ![c] = out[c] \o SubSeq(build(response[c]), 1, n)]
    /\ Fail(c, "io")
    /\ UNCHANGED <<clients, directory, files, accepted, pos, request, handle,
                   contents, response,
                   handler, answered>>

Next ==
    \/ Accept
    \/ \E c \in Conns : ParseRequest(c)
    \/ \E c \in Conns : ReadBody(c)
    \/ \E c \in Conns : Dispatch(c)
    \/ \E c \in Conns : CreateFail(c)
    \/ \E c \in Conns : PostWrite(c)
    \/ \E c \in Conns : PostWriteFail(c)
    \/ \E c \in Conns : GetOpen(c)
    \/ \E c \in Conns : GetRead(c)
    \/ \E c \in Conns : WriteResponse(c)
    \/ \E c \in Conns : WriteFail(c)

Spec == Init /\ [][Next]_vars

\* the operating system runs a thread that can run, the main thread in its
\* accept loop or a worker, and a system call that does not wait for the
\* client returns: while a step is possible, one is taken.  No step is ever
\* undone, so this is all the scheduling the claims need.
Fairness == WF_vars(Next)

FairSpec == Start(FairClientLists) /\ [][Next]_vars /\ Fairness

(***************************************************************************)
(* What a client reads off the socket, and the words of the claims.         *)
(***************************************************************************)
\* "HTTP/1.1 200 OK", "HTTP/1.1 201 Created", "HTTP/1.1 404 Not Found",
\* "HTTP/1.1 405 Method Not Allowed"
Status200 == <<72, 84, 84, 80, 47, 49, 46, 49, 32, 50, 48, 48, 32, 79, 75>>
Status201 ==
    <<72, 84, 84, 80, 47, 49, 46, 49, 32, 50, 48, 49, 32, 67, 114, 101, 97, 116,
      101, 100>>
Status404 ==
    <<72, 84, 84, 80, 47, 49, 46, 49, 32, 52, 48, 52, 32, 78, 111, 116, 32, 70,
      111, 117, 110, 100>>
Status405 ==
    <<72, 84, 84, 80, 47, 49, 46, 49, 32, 52, 48, 53, 32, 77, 101, 116, 104, 111,
      100, 32, 78, 111, 116, 32, 65, 108, 108, 111, 119, 101, 100>>

\* the first blank line of the bytes w ends the header section
BlankLineAt(w) == {i \in 1..(Len(w) - 3) : SubSeq(w, i, i + 3) = <<13, 10, 13, 10>>}
WireHead(w) == lines(SubSeq(w, 1, SetMin(BlankLineAt(w)) + 1))
WireStatus(w) == WireHead(w)[1]
WireHeaders(w) == Tail(WireHead(w))
WireBody(w) == Skip(w, SetMin(BlankLineAt(w)) + 3)
\* the values of the header lines "key: value" of w
WireValues(w, key) ==
    LET named(l) == starts_with(l, key \o <<58, 32>>)
        value(l) == Skip(l, Len(key) + 2)
        hits == SelectSeq(WireHeaders(w), named)
    IN  [i \in 1..Len(hits) |-> value(hits[i])]

\* the same on a Response the handler returned
ResponseValues(r, key) ==
    LET named(h) == h[1] = key
        hits == SelectSeq(r.headers, named)
    IN  [i \in 1..Len(hits) |-> hits[i][2]]

\* the worker of c has run its handler, to the end or to an Err
Dispatched(c) == handler[c] # ""
\* the handler of c has returned a Response
Responded(c) == response[c] # NoResponse
\* the whole response of c is on the wire
Answered(c) == pc[c] = "closed"
\* the worker of c went nowhere near the files
NoFileTouched(c) ==
    /\ handle[c] = NoHandle
    /\ Len(clients) = 1 => files \in InitialStores

(***************************************************************************)
(* C1: every fully read request whose method is neither exactly GET nor      *)
(* exactly POST (the empty method too), on any path, and every POST to a     *)
(* path that does not start with /files/, is answered 405 Method Not         *)
(* Allowed with no header and no body, and no file is touched.               *)
(***************************************************************************)
C1_NotAllowedCase(req) ==
    \/ req.method \notin {StrGET, StrPOST}
    \/ req.method = StrPOST /\ ~starts_with(req.path, PathFiles)

C1_MethodNotAllowed ==
    \A c \in Conns :
        Dispatched(c) /\ C1_NotAllowedCase(request[c]) =>
            /\ pc[c] \in {"write_all", "closed", "failed"}
            /\ response[c].status_line = Status405 \o CRLF
            /\ response[c].headers = <<>>
            /\ response[c].body = <<>>
            /\ NoFileTouched(c)
            /\ Answered(c) => out[c] = Status405 \o CRLF \o CRLF

C1_Witness ==
    \E c \in Conns :
        /\ Answered(c)
        /\ request[c].method = StrPOST
        /\ request[c].path = PathNope
        /\ request[c].body # <<>>
        /\ WireStatus(out[c]) = Status405
        /\ WireHeaders(out[c]) = <<>>
        /\ WireBody(out[c]) = <<>>

(***************************************************************************)
(* C2: routing is a first-match-wins evaluation of the ordered rules: a GET  *)
(* whose path starts with /files/ goes to file-get, /user-agent to          *)
(* client-identity, a path starting with /echo/ to echo, / to the trivial    *)
(* 200, and a GET matched by none of these gets 404 Not Found, not 405;      *)
(* each (method, path) pair is handled by exactly one handler.               *)
(***************************************************************************)
C2_Rules ==
    << [prefix |-> TRUE, pattern |-> PathFiles, handler |-> "file_get"],
       [prefix |-> FALSE, pattern |-> PathUserAgent, handler |-> "user_agent"],
       [prefix |-> TRUE, pattern |-> PathEcho, handler |-> "echo"],
       [prefix |-> FALSE, pattern |-> PathRoot, handler |-> "ok"] >>

C2_Matches(rule, path) ==
    IF rule.prefix THEN starts_with(path, rule.pattern) ELSE path = rule.pattern

C2_FirstMatch(path) ==
    LET hits == {i \in 1..Len(C2_Rules) : C2_Matches(C2_Rules[i], path)}
    IN  IF hits = {} THEN "not_found" ELSE C2_Rules[SetMin(hits)].handler

C2_Routing ==
    /\ \A c \in Conns :
          Dispatched(c) /\ request[c].method = StrGET =>
            /\ handler[c] = C2_FirstMatch(request[c].path)
            /\ handler[c] = "not_found" =>
                 /\ pc[c] \in {"write_all", "closed", "failed"}
                 /\ starts_with(response[c].status_line, Status404 \o CRLF)
                 /\ Answered(c) => WireStatus(out[c]) = Status404
    /\ \A c, d \in Conns :
          /\ Dispatched(c) /\ Dispatched(d)
          /\ request[c].method = request[d].method
          /\ request[c].path = request[d].path
          => handler[c] = handler[d]

\* "/echo" without the slash is no echo route: 404
C2_Witness ==
    \E c \in Conns :
        /\ Answered(c)
        /\ request[c].method = StrGET
        /\ request[c].path = SubSeq(PathEcho, 1, 5)
        /\ handler[c] = "not_found"
        /\ WireStatus(out[c]) = Status404

(***************************************************************************)
(* C3: a GET of /echo/{s} with no gzip negotiated is answered 200 with       *)
(* Content-Type text/plain, a body that is s byte for byte (nothing is       *)
(* percent-decoded, and s may be empty) and Content-Length len(s).           *)
(***************************************************************************)
\* the first header line that starts, whatever the case, with
\* accept-encoding: and whether a gzip is among its comma-separated values
AcceptEncodingLinesOf(headers) ==
    LET named(l) == starts_with(to_lowercase(l), KeyAcceptEncoding)
    IN  SelectSeq(lines(headers), named)

LineNamesGzip(l) ==
    LET values == SplitAt(Skip(l, 16), {44})
    IN  \E i \in 1..Len(values) : trim(values[i]) = TokGzip

GzipNegotiated(headers) ==
    LET ae == AcceptEncodingLinesOf(headers)
    IN  ae # <<>> /\ LineNamesGzip(ae[1])

C3_Echo ==
    \A c \in Conns :
        /\ Answered(c)
        /\ request[c].method = StrGET
        /\ starts_with(request[c].path, PathEcho)
        /\ ~GzipNegotiated(request[c].headers)
        => LET s == Skip(request[c].path, 6)
           IN  /\ WireStatus(out[c]) = Status200
               /\ WireValues(out[c], HdrContentType) = <<TextPlain>>
               /\ WireBody(out[c]) = s
               /\ Len(WireValues(out[c], HdrContentLength)) = 1
               /\ parse_usize(WireValues(out[c], HdrContentLength)[1]) = Len(s)
               /\ WireValues(out[c], HdrContentEncoding) = <<>>

\* "%41" comes back as the three bytes it is
C3_Witness ==
    \E c \in Conns :
        /\ Answered(c)
        /\ request[c].path = PathEcho \o <<37, 52, 49>>
        /\ ~GzipNegotiated(request[c].headers)
        /\ WireBody(out[c]) = <<37, 52, 49>>
        /\ WireValues(out[c], HdrContentLength) = << <<51>> >>

(***************************************************************************)
(* C4 (as amended): for every GET of /echo/*, /user-agent or /files/* (an   *)
(* existing file being served) whose FIRST Accept-Encoding header line (key *)
(* matched whatever the case) names the exact token gzip among its          *)
(* comma-separated values, the response carries Content-Encoding: gzip,     *)
(* its Content-Length is the length of the compressed body as sent, and     *)
(* decompressing the body gives the uncompressed payload exactly.           *)
(***************************************************************************)
\* the inverse of the gzip member: <<data>>, or <<>> when b is none
Gunzip(b) ==
    IF Len(b) < 23 THEN <<>>
    ELSE LET n == b[12] + 256 * b[13]
             data == SubSeq(b, 16, 15 + n)
         IN  IF /\ SubSeq(b, 1, 10) = <<31, 139, 8, 0, 0, 0, 0, 0, 0, 255>>
                /\ b[11] = 1
                /\ b[14] = 255 - b[12]
                /\ b[15] = 255 - b[13]
                /\ Len(b) = 23 + n
                /\ SubSeq(b, 16 + n, 19 + n) = LE32(ByteSum(data))
                /\ SubSeq(b, 20 + n, 23 + n) = LE32(n)
             THEN <<data>> ELSE <<>>

\* an answered GET on one of the three routes that carry a payload
C4_Case(c) ==
    /\ Answered(c)
    /\ request[c].method = StrGET
    /\ \/ starts_with(request[c].path, PathEcho)
       \/ request[c].path = PathUserAgent
       \/ starts_with(request[c].path, PathFiles) /\ WireStatus(out[c]) = Status200

\* the payload before any encoding
C4_Payload(c) ==
    IF starts_with(request[c].path, PathFiles) THEN contents[c]
    ELSE IF request[c].path = PathUserAgent
      THEN extract_user_agent(request[c].headers)
    ELSE Skip(request[c].path, 6)

C4_Gzipped(c) ==
    /\ WireValues(out[c], HdrContentEncoding) = <<TokGzip>>
    /\ Len(WireValues(out[c], HdrContentLength)) = 1
    /\ parse_usize(WireValues(out[c], HdrContentLength)[1]) = Len(WireBody(out[c]))
    /\ Gunzip(WireBody(out[c])) = <<C4_Payload(c)>>

C4_GzipFirstLine ==
    \A c \in Conns :
        C4_Case(c) /\ GzipNegotiated(request[c].headers) => C4_Gzipped(c)

C4_Witness ==
    \E c \in Conns :
        /\ C4_Case(c)
        /\ request[c].path = PathFilesA
        /\ GzipNegotiated(request[c].headers)
        /\ contents[c] = OldContent
        /\ Gunzip(WireBody(out[c])) = <<OldContent>>
        /\ Len(WireBody(out[c])) # Len(OldContent)

\* C4 as stated: any Accept-Encoding header line of the request that names
\* gzip is enough
C4_AnyLineNamesGzip(headers) ==
    LET ae == AcceptEncodingLinesOf(headers)
    IN  \E i \in 1..Len(ae) : LineNamesGzip(ae[i])

C4_GzipAnyLine ==
    \A c \in Conns :
        C4_Case(c) /\ C4_AnyLineNamesGzip(request[c].headers) => C4_Gzipped(c)

(***************************************************************************)
(* C5: a POST of B to /files/{name} that completes yields 201 Created, and   *)
(* a GET of /files/{name} issued after it completed, with no other POST to   *)
(* that name in between, returns 200 with a body equal to B once gzip is     *)
(* undone, whatever the file held before.                                    *)
(***************************************************************************)
C5_IsFilePost(c) ==
    request[c].method = StrPOST /\ starts_with(request[c].path, PathFiles)

\* the body of the answer of c with its content encoding undone
C5_Decoded(c) ==
    IF WireValues(out[c], HdrContentEncoding) = <<TokGzip>>
      THEN Gunzip(WireBody(out[c])) ELSE <<WireBody(out[c])>>

\* every other POST to the path of p was answered before the handler of p
\* began, or has not reached its handler
C5_NoPostBetween(p) ==
    \A q \in Conns \ {p} :
        C5_IsFilePost(q) /\ request[q].path = request[p].path =>
            q \in answered[p] \/ pc[q] \in {"read_body", "dispatch"}

C5_RoundTrip ==
    /\ \A p \in Conns :
          C5_IsFilePost(p) /\ Answered(p) => WireStatus(out[p]) = Status201
    /\ \A p, g \in Conns :
          /\ C5_IsFilePost(p)
          /\ request[g].method = StrGET
          /\ request[g].path = request[p].path
          /\ Dispatched(g)
          /\ p \in answered[g]
          /\ C5_NoPostBetween(p)
          => /\ pc[g] = "failed" => Responded(g) /\ error[g] = "io"
             /\ Responded(g) =>
                  /\ response[g].status_line = Status200 \o CRLF
                  /\ IF supports_gzip(request[g].headers)
                       THEN Gunzip(response[g].body) = <<request[p].body>>
                       ELSE response[g].body = request[p].body
             /\ Answered(g) =>
                  /\ WireStatus(out[g]) = Status200
                  /\ C5_Decoded(g) = <<request[p].body>>

\* "z" is posted, whatever ./a held and whoever posted before, and "z" is read
C5_Witness ==
    \E p, g \in Conns :
        /\ C5_IsFilePost(p) /\ Answered(p) /\ Answered(g)
        /\ p \in answered[g]
        /\ C5_NoPostBetween(p)
        /\ request[g].method = StrGET
        /\ request[g].path = request[p].path
        /\ request[p].body = <<122>>
        /\ WireBody(out[g]) = <<122>>

(***************************************************************************)
(* C6: a GET of / with no headers puts on the wire exactly the 200 OK        *)
(* status line and the blank line that ends the header section: no header   *)
(* line, and not one byte after the blank line.                              *)
(***************************************************************************)
C6_RootExact ==
    \A c \in Conns :
        /\ Answered(c)
        /\ request[c].method = StrGET
        /\ request[c].path = PathRoot
        /\ request[c].headers = <<>>
        => /\ out[c] = Status200 \o CRLF \o CRLF
           /\ WireBody(out[c]) = <<>>

HeadErrors == {"Failed to read request line", "Failed to read header line"}

\* the worker of c is past parse_request
Parsed(c) == pc[c] \notin {"pending", "refused", "parse_request"}

\* the lines of the stream as the LFs cut it, the last one unterminated, and
\* the header line (any but the first) that is blank
C8_Pieces(s) == SplitAt(s, {10})
C8_Blank(s) ==
    LET pieces == C8_Pieces(s)
    IN  {j \in 2..(Len(pieces) - 1) : trim(pieces[j]) = <<>>}

\* reading the head of the stream meets a byte that is not UTF-8, or the
\* failure of the socket
C8_HeadReadError(s, ending) ==
    LET pieces == C8_Pieces(s)
        n == Len(pieces)
        bad(j) == 255 \in Range(pieces[j])
        blank == C8_Blank(s)
    IN  IF blank # {} THEN \E j \in 1..SetMin(blank) : bad(j)
        ELSE \/ \E j \in 1..(n - 1) : bad(j)
             \/ ending = "err"
             \/ ending = "eof" /\ bad(n)

C8_ClaimedParseError(s, ending) ==
    \/ Len(split_whitespace(C8_Pieces(s)[1])) < 2
    \/ ending # "open" /\ Len(C8_Pieces(s)) = 1
    \/ ending # "open" /\ C8_Blank(s) = {}

C9_Declared(headers) ==
    LET named(l) == starts_with(to_lowercase(l), KeyContentLength)
        cl == SelectSeq(lines(headers), named)
        tokens == IF cl = <<>> THEN <<>> ELSE split_whitespace(cl[1])
    IN  IF Len(tokens) >= 2 /\ parse_usize(tokens[2]) > 0
          THEN parse_usize(tokens[2]) ELSE 0

\* where the head of the stream ends: behind its blank line, or with it
RECURSIVE C9_Sum(_, _)
C9_Sum(pieces, j) == IF j = 0 THEN 0 ELSE Len(pieces[j]) + 1 + C9_Sum(pieces, j - 1)

C9_HeadEnd(s) ==
    LET blank == C8_Blank(s)
    IN  IF blank = {} THEN Len(s) ELSE C9_Sum(C8_Pieces(s), SetMin(blank))

C9_ShortBodyFails ==
    \A c \in Conns :
        LET L == C9_Declared(request[c].headers)
            s == clients[c].bytes
            start == C9_HeadEnd(s)
        IN  /\ Parsed(c) /\ pc[c] # "read_body"
            /\ error[c] \notin HeadErrors
            /\ L > 0
            => IF Len(s) - start < L
                 THEN /\ pc[c] = "failed"
                      /\ error[c] = "Failed to read body"
                      /\ out[c] = <<>>
                      /\ ~Responded(c) /\ ~Dispatched(c)
                      /\ request[c].body = <<>>
                      /\ NoFileTouched(c)
                 ELSE /\ error[c] # "Failed to read body"
                      /\ Len(request[c].body) = L
                      /\ request[c].body = SubSeq(s, start + 1, start + L)
                      /\ pos[c] = start + L

\* a POST to /files/a that declares more than it sends: no file, no answer
C9_Witness ==
    \E c \in Conns :
        /\ pc[c] = "failed"
        /\ error[c] = "Failed to read body"
        /\ request[c].method = StrPOST
        /\ request[c].path = PathFilesA
        /\ C9_Declared(request[c].headers) = 2
        /\ Len(clients[c].bytes) - C9_HeadEnd(clients[c].bytes) = 1
        /\ clients[c].ending = "eof"
        /\ out[c] = <<>>
        /\ files = <<>>

(***************************************************************************)
(* C10: one request is processed per accepted connection: a connection has   *)
(* at most one response written to it, after that response (or after a       *)
(* failure) it is closed, whatever the client sent behind the first request  *)
(* or asked with keep-alive; the bytes behind the first request are never    *)
(* parsed or answered.                                                       *)
(***************************************************************************)
Occurrences(w, pattern) ==
    Cardinality({i \in 1..(Len(w) - Len(pattern) + 1) :
                    SubSeq(w, i, i + Len(pattern) - 1) = pattern})

IsPrefix(a, b) == Len(a) <= Len(b) /\ SubSeq(b, 1, Len(a)) = a

\* handle_client has returned for c, or accept never gave c a worker
Over(c) == pc[c] \in {"closed", "failed", "refused"}

C10_State ==
    \A c \in Conns :
        /\ out[c] # <<>> => pc[c] \in {"closed", "failed"}
        /\ pc[c] = "closed" =>
              /\ out[c] = build(response[c])
              \* "HTTP/1.1 " starts one status line
              /\ Occurrences(out[c], SubSeq(Status200, 1, 9)) = 1
        /\ pc[c] = "failed" =>
              IsPrefix(out[c], build(response[c])) /\ out[c] # build(response[c])
        /\ pos[c] <= C9_HeadEnd(clients[c].bytes) + C9_Declared(request[c].headers)

C10_Step ==
    \A c \in Conns :
        Over(c) =>
            /\ pc'[c] = pc[c]
            /\ out'[c] = out[c]
            /\ pos'[c] = pos[c]
            /\ response'[c] = response[c]

C10_OneRequest == []C10_State /\ [][C10_Step]_vars

\* a keep-alive request with a second request behind it: one answer, and the
\* second request is still unread
C10_Witness ==
    \E c \in Conns :
        /\ Answered(c)
        /\ KeepAlive \in Range([i \in 1..Len(lines(request[c].headers)) |->
                                   lines(request[c].headers)[i] \o CRLF])
        /\ Len(clients[c].bytes) - pos[c] > 16
        /\ out[c] = build(response[c])
        /\ Occurrences(out[c], SubSeq(Status200, 1, 9)) = 1

(***************************************************************************)
(* C11: when every connection asks GET /echo/{i} with an i of its own, then *)
(* under every interleaving of the workers each connection reads the        *)
(* request of its own stream and is answered 200 with its own i as the      *)
(* body, never the i of another connection; a connection whose write fails  *)
(* holds a part of that same response and nothing else.                     *)
(***************************************************************************)
\* the i that the client of connection c sent
C11_Own(c) == Skip(split_whitespace(clients[c].bytes)[2], Len(PathEcho))

C11_DistinctEchoes ==
    /\ \A c \in Conns : clients[c] \in {EchoClient(e) : e \in EchoTexts}
    /\ \A c, d \in Conns : c # d => C11_Own(c) # C11_Own(d)

C11_NoCrossTalk ==
    C11_DistinctEchoes =>
        \A c \in Conns :
            /\ Dispatched(c) =>
                  /\ request[c].path = PathEcho \o C11_Own(c)
                  /\ response[c].body = C11_Own(c)
            /\ Answered(c) =>
                  /\ WireStatus(out[c]) = Status200
                  /\ WireBody(out[c]) = C11_Own(c)
                  /\ \A d \in Conns \ {c} : WireBody(out[c]) # C11_Own(d)
            /\ IsPrefix(out[c], build(serve_echo(PathEcho \o C11_Own(c), <<>>)))

\* three connections with three texts, all of them answered
C11_Witness ==
    /\ C11_DistinctEchoes
    /\ Len(clients) = 3
    /\ \A c \in Conns : Answered(c) /\ WireBody(out[c]) = C11_Own(c)

(***************************************************************************)
(* C12: the accept loop survives every failure of a connection and never    *)
(* waits for a worker.  Whenever a connection is still to come the loop can *)
(* accept it, whatever became of the connections before it (accept failed,  *)
(* worker failed, worker blocked on its client); and under fair scheduling  *)
(* every connection is eventually accepted and every connection whose       *)
(* client has sent its request and ended the stream is eventually served,   *)
(* to Closed or Failed, also behind a connection whose worker is blocked    *)
(* for ever.                                                                *)
(***************************************************************************)
Terminal(c) == c \in Conns /\ pc[c] \in {"closed", "failed"}

\* the worker of c waits for bytes of its client
Blocked(c) ==
    \/ /\ pc[c] = "parse_request"
       /\ parse_request(Stream(c).bytes, pos[c], Stream(c).ending).kind = "block"
    \/ /\ pc[c] = "read_body"
       /\ read_body(Stream(c).bytes, pos[c], Stream(c).ending,
                    request[c].headers).kind = "block"

C12_LoopRuns == accepted < Len(clients) => ENABLED Accept

C12_Sent(c) ==
    c \in Conns /\ clients[c].accept = "ok" /\ clients[c].ending = "eof"

C12_Served ==
    /\ accepted = Len(clients)
    /\ \A c \in Conns : C12_Sent(c) => Terminal(c)

C12_AcceptLoop == []C12_LoopRuns /\ <>[]C12_Served

\* the third connection is answered behind a refused one and one whose
\* worker waits for its client; and one is answered behind a failed worker
C12_Witness ==
    \/ /\ Len(clients) = 3
       /\ Blocked(1) /\ pc[2] = "refused" /\ Answered(3)
    \/ /\ Len(clients) = 2
       /\ pc[1] = "failed" /\ out[1] = <<>> /\ answered[2] = {} /\ Answered(2)

(***************************************************************************)
(* C13: every answered GET /user-agent has status 200 and Content-Type      *)
(* text/plain.  With no gzip negotiated its body is the value of the first  *)
(* User-Agent header line, the key matched whatever its case and the value  *)
(* trimmed of the whitespace around it, and is empty when the request has   *)
(* no such line; with gzip negotiated the body is the gzip member of that   *)
(* value, the empty one included, marked Content-Encoding: gzip.            *)
(***************************************************************************)
\* what follows the key in the first line "user-agent:..." of the headers the
\* client sent, in any case of the key
C13_UserAgentLines(headers) ==
    LET named(l) == Len(l) >= 11 /\ to_lowercase(SubSeq(l, 1, 11)) = KeyUserAgent
    IN  SelectSeq(lines(headers), named)

C13_Value(headers) ==
    LET ua == C13_UserAgentLines(headers)
    IN  IF ua = <<>> THEN <<>> ELSE trim(SubSeq(ua[1], 12, Len(ua[1])))

C13_Case(c) ==
    Answered(c) /\ request[c].method = StrGET /\ request[c].path = PathUserAgent

C13_UserAgent ==
    \A c \in Conns :
        C13_Case(c) =>
            /\ WireStatus(out[c]) = Status200
            /\ WireValues(out[c], HdrContentType) = <<TextPlain>>
            /\ IF GzipNegotiated(request[c].headers)
                 THEN /\ WireValues(out[c], HdrContentEncoding) = <<TokGzip>>
                      /\ Gunzip(WireBody(out[c])) = <<C13_Value(request[c].headers)>>
                      /\ WireBody(out[c]) # <<>>
                 ELSE /\ WireValues(out[c], HdrContentEncoding) = <<>>
                      /\ WireBody(out[c]) = C13_Value(request[c].headers)

\* "USER-AGENT:  v/2 " before "User-Agent: t/1": the body is "v/2"
C13_Witness ==
    \E c \in Conns :
        /\ C13_Case(c)
        /\ Len(C13_UserAgentLines(request[c].headers)) = 2
        /\ ~GzipNegotiated(request[c].headers)
        /\ WireBody(out[c]) = <<118, 47, 50>>

\* C13 as stated: the body is the value of the header, and empty without
\* the header, whatever else the request carries
C13_BodyIsValue ==
    \A c \in Conns :
        C13_Case(c) =>
            /\ WireStatus(out[c]) = Status200
            /\ WireValues(out[c], HdrContentType) = <<TextPlain>>
            /\ WireBody(out[c]) = C13_Value(request[c].headers)

(***************************************************************************)
(* C14: whatever the file store holds, a GET of /files/{name} for a name     *)
(* that is not in the configured directory is answered 404 Not Found with    *)
(* no header and an empty body (the status line, the blank line, and         *)
(* nothing behind it), whatever Accept-Encoding was sent, and no file is     *)
(* created.                                                                  *)
(***************************************************************************)
\* c asked for a file that is not there; no file is ever removed, so it was
\* not there when the handler of c looked
C14_Case(c) ==
    /\ Answered(c)
    /\ request[c].method = StrGET
    /\ starts_with(request[c].path, PathFiles)
    /\ ~Exists(files, directory, Join(directory, Skip(request[c].path, 7)))

\* the parts of C14 that are about the status, the headers and the files
C14_StatusAndFrame ==
    \A c \in Conns :
        C14_Case(c) =>
            /\ WireStatus(out[c]) = Status404
            /\ WireHeaders(out[c]) = <<>>
            /\ response[c].headers = <<>> /\ response[c].body = <<>>
            /\ handle[c].path = <<>>
            /\ Len(clients) = 1 => files \in InitialStores

C14_NotFound ==
    /\ C14_StatusAndFrame
    /\ \A c \in Conns : C14_Case(c) => WireBody(out[c]) = <<>>

(***************************************************************************)
(* C15: a POST to /files/{name} whose file cannot be created, or whose       *)
(* write does not complete, aborts the connection: the worker fails, no      *)
(* Response is returned and not one byte (so no 201 Created) is sent.  What  *)
(* reached the file stays: a create that failed leaves the store as it was,  *)
(* and after a write that failed the file holds the bytes written so far     *)
(* behind the truncation, not its old content.                               *)
(***************************************************************************)
C15_FilePath(c) == Join(directory, Skip(request[c].path, 7))

\* the worker of c is past the reading of its request
C15_PastReading(c) ==
    pc[c] \in {"post_write", "write_all", "closed"}
    \/ (pc[c] = "failed" /\ error[c] \notin HeadErrors \cup {"Failed to read body"})

\* File::create returned an Err, or write_all on the file did
C15_Aborted(c) ==
    /\ C5_IsFilePost(c)
    /\ pc[c] = "failed"
    /\ error[c] \in {"io", "Failed to write file"}
    /\ response[c] = NoResponse

C15_PostAborts ==
    \A c \in Conns :
        /\ C5_IsFilePost(c) /\ C15_PastReading(c)
           /\ ~CanCreate(directory, C15_FilePath(c))
           => C15_Aborted(c)
        /\ C15_Aborted(c) =>
              /\ out[c] = <<>>
              /\ Len(clients) = 1 =>
                    IF error[c] = "Failed to write file"
                      THEN files[C15_FilePath(c)] =
                              SubSeq(request[c].body, 1, handle[c].off)
                      ELSE files \in InitialStores

\* the write of "x", 255 over "old" fails behind its first byte: ./a holds "x"
C15_Witness ==
    \E c \in Conns :
        /\ Len(clients) = 1
        /\ C15_Aborted(c)
        /\ error[c] = "Failed to write file"
        /\ Len(request[c].body) = 2
        /\ files[C15_FilePath(c)] = <<120>>
        /\ out[c] = <<>>

(***************************************************************************)
(* C16: a connection moves only along Accepted, Reading, Dispatching,        *)
(* Writing, Closed, in that order and one stage at a time, or from Reading,  *)
(* Dispatching or Writing to Failed; Closed and Failed are left by no step.  *)
(* A byte is written to the socket only in Writing, when the whole request   *)
(* is read and the handler has returned a Response; a connection that        *)
(* failed in Reading or Dispatching has no byte written to it, then or       *)
(* later; and a step that returned an error is not tried again: the worker   *)
(* is in Failed from then on.                                                *)
(***************************************************************************)
\* the stage of the worker: a connection is Accepted when its worker starts,
\* and that worker's first act is to read
C16_Stage(p) ==
    CASE p = "pending" -> "Listening"
      [] p = "refused" -> "Refused"
      [] p \in {"parse_request", "read_body"} -> "Reading"
      [] p \in {"dispatch", "post_write", "get_open", "get_read"} -> "Dispatching"
      [] p = "write_all" -> "Writing"
      [] p = "closed" -> "Closed"
      [] p = "failed" -> "Failed"

C16_Moves ==
    {<<"Listening", "Reading">>, <<"Listening", "Refused">>,
     <<"Reading", "Dispatching">>, <<"Dispatching", "Writing">>,
     <<"Writing", "Closed">>,
     <<"Reading", "Failed">>, <<"Dispatching", "Failed">>, <<"Writing", "Failed">>}

C16_State ==
    \A c \in Conns :
        /\ error[c] # "" <=> pc[c] = "failed"
        /\ out[c] # <<>> =>
              /\ C16_Stage(pc[c]) \in {"Closed", "Failed"}
              /\ Responded(c)
              /\ request[c].body =
                    SubSeq(clients[c].bytes, pos[c] - Len(request[c].body) + 1, pos[c])
        /\ pc[c] = "failed" /\ ~Responded(c) => out[c] = <<>>
        /\ C16_Stage(pc[c]) \in {"Listening", "Refused", "Reading"} => ~Responded(c)

C16_Step ==
    \A c \in Conns :
        /\ C16_Stage(pc'[c]) # C16_Stage(pc[c]) =>
              <<C16_Stage(pc[c]), C16_Stage(pc'[c])>> \in C16_Moves
        /\ out'[c] # out[c] => C16_Stage(pc[c]) = "Writing"
        /\ C16_Stage(pc[c]) \in {"Reading", "Dispatching"} /\ pc'[c] = "failed" =>
              out'[c] = <<>> /\ response'[c] = NoResponse
        /\ C16_Stage(pc[c]) \in {"Closed", "Failed", "Refused"} =>
              /\ pc'[c] = pc[c] /\ out'[c] = out[c] /\ error'[c] = error[c]
              /\ request'[c] = request[c] /\ handle'[c] = handle[c]
              /\ contents'[c] = contents[c]

C16_Lifecycle == []C16_State /\ [][C16_Step]_vars

\* of two connections one went all the way to Closed, the other failed in
\* Dispatching, its file written in part, with nothing sent to it
C16_Witness ==
    /\ Len(clients) = 2
    /\ \E c, d \in Conns :
          /\ Answered(c) /\ out[c] # <<>>
          /\ pc[d] = "failed" /\ error[d] = "Failed to write file"
          /\ handle[d].off = 1 /\ out[d] = <<>>

(***************************************************************************)
(* C17: nothing keeps a GET and a POST of the same file apart.  With a GET   *)
(* of /files/{name} running while a POST of B to /files/{name} runs, where   *)
(* the file held A, the GET can be answered 200 with a body that is neither  *)
(* A nor B: the file is truncated when it is created and written after       *)
(* (C17_Witness is such an answer).  In every interleaving the GET that is   *)
(* answered 200 carries one Content-Length, equal to the length of the body  *)
(* it sends, and that body is the bytes its reads collected, gzip applied    *)
(* when negotiated.                                                          *)
(***************************************************************************)
\* g is an answered GET of a file, p a POST to the same path whose handler
\* had begun and whose answer was not written when the handler of g began or
\* which began while g ran
C17_Race(g, p) ==
    /\ g # p
    /\ Answered(g) /\ request[g].method = StrGET
    /\ starts_with(request[g].path, PathFiles)
    /\ WireStatus(out[g]) = Status200
    /\ C5_IsFilePost(p) /\ handler[p] = "file_post"
    /\ request[p].path = request[g].path
    /\ p \notin answered[g]
    /\ g \notin answered[p]

C17_LengthOfTornRead ==
    \A g, p \in Conns :
        C17_Race(g, p) =>
            /\ Len(WireValues(out[g], HdrContentLength)) = 1
            /\ parse_usize(WireValues(out[g], HdrContentLength)[1])
                  = Len(WireBody(out[g]))
            /\ C5_Decoded(g) = <<contents[g]>>

\* "xy" is posted over "old": the GET is answered with "x", or with nothing
C17_Witness ==
    \E g, p \in Conns :
        /\ C17_Race(g, p)
        /\ Len(clients) = 2
        /\ request[p].body = <<120, 121>>
        /\ WireBody(out[g]) \in {<<>>, <<120>>}
        /\ WireBody(out[g]) \notin {OldContent, request[p].body}
        /\ WireValues(out[g], HdrContentLength) = <<to_string(Len(WireBody(out[g])))>>

(***************************************************************************)
(* C18: whether the body is compressed is decided from the first header      *)
(* line that starts, in any case, with accept-encoding: and from nothing     *)
(* else.  On the routes that carry a payload the body is the gzip member of  *)
(* the payload, marked Content-Encoding: gzip, if and only if one of the     *)
(* comma-separated, trimmed tokens of that line's value is exactly gzip      *)
(* (GZIP, gzip;q=1.0, * and a gzip in a later Accept-Encoding line do not    *)
(* count).  Otherwise the body is the payload unchanged, there is no         *)
(* Content-Encoding header, and Content-Length is the payload's length.      *)
(***************************************************************************)
\* the payload of an answered GET, taken from what the client sent and from
\* what the file reads returned
C18_Payload(c) ==
    IF starts_with(request[c].path, PathFiles) THEN contents[c]
    ELSE IF request[c].path = PathUserAgent THEN C13_Value(request[c].headers)
    ELSE SubSeq(request[c].path, 7, Len(request[c].path))

C18_Eligible(c) ==
    LET ae == AcceptEncodingLinesOf(request[c].headers)
    IN  /\ ae # <<>>
        /\ \E t \in Range(SplitAt(SubSeq(ae[1], 17, Len(ae[1])), {44})) :
              trim(t) = TokGzip

C18_Compressed(c) ==
    /\ WireValues(out[c], HdrContentEncoding) = <<TokGzip>>
    /\ WireBody(out[c]) = compress_gzip(C18_Payload(c))
    /\ WireBody(out[c]) # C18_Payload(c)

C18_Unchanged(c) ==
    /\ WireValues(out[c], HdrContentEncoding) = <<>>
    /\ WireBody(out[c]) = C18_Payload(c)
    /\ WireValues(out[c], HdrContentLength) = <<to_string(Len(C18_Payload(c)))>>

C18_Eligibility ==
    \A c \in Conns :
        C4_Case(c) =>
            /\ C18_Eligible(c) <=> C18_Compressed(c)
            /\ ~C18_Eligible(c) <=> C18_Unchanged(c)

\* "Accept-Encoding: *" before "Accept-Encoding: gzip", and GZIP alone: the
\* text goes out as it came
C18_Witness ==
    \E c \in Conns :
        /\ C4_Case(c)
        /\ starts_with(request[c].path, PathEcho)
        /\ LET ae == AcceptEncodingLinesOf(request[c].headers)
           IN  /\ Len(ae) = 2
               /\ ~LineNamesGzip(ae[1]) /\ LineNamesGzip(ae[2])
        /\ C18_Unchanged(c)
        /\ WireBody(out[c]) = <<37, 52>>

(***************************************************************************)
(* C19: every worker runs to completion or to failure.  Under fair           *)
(* scheduling every accepted connection ends Closed or Failed, unless its    *)
(* client keeps the stream open and never sends the bytes its worker waits   *)
(* for; and no worker waits for another worker or for a lock: a worker that  *)
(* is neither finished nor waiting for its own client can take its next      *)
(* step, whatever the other workers are doing, so no set of connections      *)
(* deadlocks.                                                                *)
(***************************************************************************)
\* a step of the worker of c
C19_OwnStep(c) ==
    \/ ParseRequest(c) \/ ReadBody(c) \/ Dispatch(c) \/ CreateFail(c)
    \/ PostWrite(c) \/ PostWriteFail(c) \/ GetOpen(c) \/ GetRead(c)
    \/ WriteResponse(c) \/ WriteFail(c)

C19_Running(c) ==
    pc[c] \in {"parse_request", "read_body", "dispatch", "post_write",
               "get_open", "get_read", "write_all"}

\* the client of c has left the stream open and sends nothing more, and the
\* worker of c waits for bytes
C19_Starved(c) == clients[c].ending = "open" /\ Blocked(c)

C19_NoWaiting ==
    \A c \in Conns : C19_Running(c) /\ ~C19_Starved(c) => ENABLED C19_OwnStep(c)

C19_AllDone ==
    \A c \in Conns : clients[c].accept = "ok" => Terminal(c) \/ C19_Starved(c)

C19_Termination == []C19_NoWaiting /\ <>[]C19_AllDone

\* the first worker waits for its client for ever, the second is done; and a
\* connection whose stream ended in the middle of its body is done
C19_Witness ==
    \/ /\ Len(clients) = 2
       /\ C19_Starved(1) /\ Terminal(2) /\ clients[2].ending = "eof"
    \/ /\ Len(clients) = 1
       /\ pc[1] = "failed" /\ error[1] = "Failed to read body"
       /\ clients[1].ending = "eof"

(***************************************************************************)
(* C20: frame condition on the file store.  A step changes a file only if   *)
(* it is a step of a worker whose request is a POST with a path under        *)
(* /files/, and then the only file it changes is the one named by the rest   *)
(* of the path; no file is ever removed.  A step of a worker that is still   *)
(* reading its request, or whose request is a GET (found or not), has        *)
(* another method, or is a POST to a path not under /files/, leaves every    *)
(* file as it is.  No step changes the configured directory.                 *)
(***************************************************************************)
\* the step is one of the worker of c
C20_Moved(c) ==
    \/ pc'[c] # pc[c]
    \/ handle'[c] # handle[c]

C20_Reading(c) == pc[c] \in {"pending", "parse_request", "read_body"}

C20_FilePost(c) ==
    /\ ~C20_Reading(c)
    /\ request[c].method = StrPOST
    /\ starts_with(request[c].path, PathFiles)

C20_Changed(p) == p \notin DOMAIN files \/ files'[p] # files[p]

C20_Step ==
    /\ directory' = directory
    /\ DOMAIN files \subseteq DOMAIN files'
    /\ \A p \in DOMAIN files' :
         C20_Changed(p) =>
           \E c \in Conns :
             /\ C20_Moved(c)
             /\ C20_FilePost(c)
             /\ p = Join(directory, Skip(request[c].path, 7))
    /\ \A c \in Conns : C20_Moved(c) /\ ~C20_FilePost(c) => files' = files

C20_Frame == [][C20_Step]_vars

\* a POST has replaced the file while a GET of a missing file, a request
\* with another method or a connection that failed while reading went by
C20_Witness ==
    \E c \in Conns, g \in Conns :
      /\ pc[c] = "closed" /\ handler[c] = "file_post"
      /\ request[c].body # <<>>
      /\ files \notin InitialStores
      /\ files[Join(directory, Skip(request[c].path, 7))] = request[c].body
      /\ g # c
      /\ \/ pc[g] = "closed" /\ handler[g] \in {"file_get", "method_not_allowed"}
         \/ pc[g] = "failed" /\ error[g] \notin {"io", "Failed to write file"}

=============================================================================
